---- MODULE Spec2Model ----
(***************************************************************************)
(* A model of the crawl engine of site_scraper.py (class WebScraper): the  *)
(* URL rules, the frontier queue with its visited set, the counters, the   *)
(* worker threads and start()/stop().                                      *)
(*                                                                         *)
(* Text is modelled as a sequence of one-character strings, so that        *)
(* startswith, endswith, split and the URL parsing are computed on the     *)
(* characters as the code computes them.                                   *)
(***************************************************************************)
EXTENDS Integers, Sequences, FiniteSets, TLC

\* ------------------------------------------------------------------ bounds
\* Largest number of worker threads (num_threads) a session is given.
MaxThreads == 2
\* Largest max_depth a session is given.
MaxDepthBound == 2
\* Largest number of calls of start() on one scraper.
MaxStarts == 2
\* Largest number of tags of a page that is processed on its own.
MaxTags == 2

\* ------------------------------------------------------------- text helpers
StartsWith(s, p) == Len(s) >= Len(p) /\ SubSeq(s, 1, Len(p)) = p

EndsWith(s, p) == Len(s) >= Len(p) /\ SubSeq(s, Len(s) - Len(p) + 1, Len(s)) = p

\* The index of the first character of s, from index i on, that is in cs;
\* Len(s) + 1 when there is none.
RECURSIVE FindFrom(_, _, _)
FindFrom(s, cs, i) ==
    IF i > Len(s) THEN Len(s) + 1
    ELSE IF s[i] \in cs THEN i
    ELSE FindFrom(s, cs, i + 1)

\* The index of the last character of s that is in cs; 0 when there is none.
RECURSIVE FindLast(_, _, _)
FindLast(s, cs, i) ==
    IF i < 1 THEN 0
    ELSE IF s[i] \in cs THEN i
    ELSE FindLast(s, cs, i - 1)

\* url.split('#')[0]
BeforeHash(s) == SubSeq(s, 1, FindFrom(s, {"#"}, 1) - 1)

HTTP == <<"h", "t", "t", "p", ":", "/", "/">>
HTTPS == <<"h", "t", "t", "p", "s", ":", "/", "/">>

\* url.startswith(('http://', 'https://'))
IsHttp(s) == StartsWith(s, HTTP) \/ StartsWith(s, HTTPS)

SchemeChars ==
    {"a", "b", "c", "d", "e", "f", "g", "h", "i", "j", "k", "l", "m", "n", "o",
     "p", "q", "r", "s", "t", "u", "v", "w", "x", "y", "z", "+", "-", "."}

\* urllib.parse.urlparse, for lower-case text without parameters: the scheme
\* is what precedes the first ':' when that is made of scheme characters,
\* the netloc follows "//" up to the first of "/?#", the path runs to the
\* first of "?#", the query to the first "#".
urlparse(url) ==
    LET colon == FindFrom(url, {":"}, 1)
        hasScheme == /\ colon > 1
                     /\ colon <= Len(url)
                     /\ \A i \in 1..(colon - 1) : url[i] \in SchemeChars
        scheme == IF hasScheme THEN SubSeq(url, 1, colon - 1) ELSE <<>>
        rest == IF hasScheme THEN SubSeq(url, colon + 1, Len(url)) ELSE url
        hasNet == StartsWith(rest, <<"/", "/">>)
        netEnd == IF hasNet THEN FindFrom(rest, {"/", "?", "#"}, 3) ELSE 1
        netloc == IF hasNet THEN SubSeq(rest, 3, netEnd - 1) ELSE <<>>
        pathEnd == FindFrom(rest, {"?", "#"}, netEnd)
        queryEnd == FindFrom(rest, {"#"}, pathEnd)
    IN  [scheme |-> scheme,
         netloc |-> netloc,
         path |-> SubSeq(rest, netEnd, pathEnd - 1),
         query |-> IF pathEnd <= Len(rest) /\ rest[pathEnd] = "?"
                   THEN SubSeq(rest, pathEnd + 1, queryEnd - 1) ELSE <<>>]

\* urllib.parse.urljoin(base, url) for a base with scheme http or https and
\* a reference without fragment and without "." or ".." segments: an empty
\* reference gives the base, a reference with a scheme of its own (another
\* scheme, or an absolute URL in the base's scheme) is returned as it is,
\* "//host..." takes the base's scheme, "/path" the base's scheme and netloc,
\* "?query" the base's path too, and any other reference replaces the last
\* segment of the base's path.
urljoin(base, url) ==
    LET b == urlparse(base)
        u == urlparse(url)
        root == b.scheme \o <<":", "/", "/">> \o b.netloc
        dirEnd == FindLast(b.path, {"/"}, Len(b.path))
    IN  IF url = <<>> THEN base
        ELSE IF u.scheme # <<>> THEN url
        ELSE IF StartsWith(url, <<"/", "/">>) THEN b.scheme \o <<":">> \o url
        ELSE IF StartsWith(url, <<"/">>) THEN root \o url
        ELSE IF StartsWith(url, <<"?">>) THEN root \o b.path \o url
        ELSE IF dirEnd = 0 THEN root \o <<"/">> \o url
        ELSE root \o SubSeq(b.path, 1, dirEnd) \o url

\* -------------------------------------------------------------- file paths
\* path.replace(':', '_')
ReplaceColons(path) == [i \in 1..Len(path) |-> IF path[i] = ":" THEN "_" ELSE path[i]]

\* os.path.basename (POSIX): what follows the last '/'.
basename(path) == SubSeq(path, FindLast(path, {"/"}, Len(path)) + 1, Len(path))

\* s.rstrip('/')
RECURSIVE RStripSlash(_)
RStripSlash(s) ==
    IF s # <<>> /\ s[Len(s)] = "/" THEN RStripSlash(SubSeq(s, 1, Len(s) - 1)) ELSE s

\* os.path.dirname (POSIX): what precedes the last '/', that '/' included,
\* with its trailing slashes removed unless it is made of slashes only.
dirname(path) ==
    LET head == SubSeq(path, 1, FindLast(path, {"/"}, Len(path)))
    IN  IF RStripSlash(head) = <<>> THEN head ELSE RStripSlash(head)

\* os.path.join(a, b) (POSIX): an absolute b replaces a.
join(a, b) ==
    IF StartsWith(b, <<"/">>) THEN b
    ELSE IF a = <<>> \/ EndsWith(a, <<"/">>) THEN a \o b
    ELSE a \o <<"/">> \o b

\* The segments of a path, an empty one left out as os.path.normpath does.
RECURSIVE Segments(_)
Segments(path) ==
    LET i == FindFrom(path, {"/"}, 1)
    IN  IF path = <<>> THEN <<>>
        ELSE (IF i = 1 THEN <<>> ELSE << SubSeq(path, 1, i - 1) >>)
             \o Segments(SubSeq(path, i + 1, Len(path)))

\* '/'.join(segments)
RECURSIVE JoinSegments(_)
JoinSegments(segments) ==
    IF segments = <<>> THEN <<>>
    ELSE IF Len(segments) = 1 THEN segments[1]
    ELSE segments[1] \o <<"/">> \o JoinSegments(Tail(segments))

\* The number of leading segments two paths share.
RECURSIVE CommonLen(_, _)
CommonLen(a, b) ==
    IF a = <<>> \/ b = <<>> \/ a[1] # b[1] THEN 0
    ELSE 1 + CommonLen(Tail(a), Tail(b))

\* os.path.relpath(path, start) for two paths relative to the same working
\* directory: '..' for each segment of start beyond what they share, then
\* what is left of path; '.' when nothing is left.
relpath(path, start) ==
    LET path_list == Segments(path)
        start_list == Segments(start)
        i == CommonLen(path_list, start_list)
        rel == [k \in 1..(Len(start_list) - i) |-> <<".", ".">>]
               \o SubSeq(path_list, i + 1, Len(path_list))
    IN  IF rel = <<>> THEN <<".">> ELSE JoinSegments(rel)

\* str.lower(), on the letters the URLs of the model are written with.
UpperToLower == [c \in {"E", "F", "X"} |-> CASE c = "E" -> "e" [] c = "F" -> "f" [] c = "X" -> "x"]

Lower(s) == [i \in 1..Len(s) |-> IF s[i] \in DOMAIN UpperToLower THEN UpperToLower[s[i]] ELSE s[i]]

IndexHtml == <<"i", "n", "d", "e", "x", ".", "h", "t", "m", "l">>

\* self.output_dir
output_dir == <<"o">>

\* The path _get_local_path returns for url (it also creates the directory
\* of that path, see makedirs).
_get_local_path(url) ==
    LET parsed_url == urlparse(url)
        path == ReplaceColons(parsed_url.netloc \o parsed_url.path)
        ended == IF EndsWith(path, <<"/">>) THEN path \o IndexHtml
                 ELSE IF \A i \in 1..Len(basename(path)) : basename(path)[i] # "."
                      THEN path \o <<"/">> \o IndexHtml
                 ELSE path
    IN  join(output_dir, ended)

\* ------------------------------------------------------------ the web site
\* The pages a session can meet.  Each URL is written out in characters.
UrlSeed == HTTP \o <<"a", "/">>
UrlP == HTTP \o <<"o", "/", "p">>
UrlQ == HTTP \o <<"a", "/", "q">>
UrlExe == HTTP \o <<"a", "/", "f", ".", "e", "x", "e">>
UrlExeQ == HTTP \o <<"a", "/", "f", ".", "e", "x", "e", "?", "v">>

AllUrls == {UrlSeed, UrlP, UrlQ, UrlExe, UrlExeQ}

\* A seed given with a fragment.
UrlSeedFragment == HTTP \o <<"a", "/", "#", "x">>

\* The URLs of the pages whose links are normalized.
Parents == {UrlSeed, UrlQ, UrlSeedFragment}

\* The href values that are normalized: empty, a fragment alone, a relative
\* path with a fragment, an absolute URL with a fragment, an absolute path,
\* a query alone, an https URL, a URL of another scheme.
Hrefs ==
    {<<>>,
     <<"#", "t">>,
     <<"q", "#", "t">>,
     UrlP \o <<"#", "t">>,
     <<"/", "l", ".", "p", "n", "g">>,
     <<"?", "y">>,
     HTTPS \o <<"a", "/">>,
     <<"f", "t", "p", ":", "/", "/", "a", "/", "x">>}

\* The URLs that are mapped to local paths: with a path ending in '/', with
\* a last segment without '.', with a query, with a port, with an empty
\* path under a host with and without '.', and with a path that continues
\* another URL's file name.
UrlPort == HTTP \o <<"a", ":", "8", "/", "x", ".", "y">>
UrlHost == HTTP \o <<"a">>
UrlDotHost == HTTP \o <<"a", ".", "b">>
UrlDotHostPage == HTTP \o <<"a", ".", "b", "/", "x">>
UrlFile == HTTP \o <<"a", "/", "x", ".", "y">>
UrlUnderFile == HTTP \o <<"a", "/", "x", ".", "y", "/", "z">>

PathUrls ==
    {UrlSeed, UrlExeQ, UrlPort, UrlHost, UrlDotHost, UrlDotHostPage, UrlFile,
     UrlUnderFile}

\* The href values of the <a> tags of each page, as written in the page:
\*   http://a/   links to  http://o/p   q
\*   http://o/p  links to  http://a/q#t
\*   http://a/q  links to  /   f.exe   f.exe?v
\* http://o/p is on another host than the seed, and http://a/f.exe?v is a file
\* whose name comes with a query string.
Anchors(url) ==
    CASE url = UrlSeed -> << UrlP, <<"q">> >>
      [] url = UrlP -> << UrlQ \o <<"#", "t">> >>
      [] url = UrlQ -> << <<"/">>,
                          <<"f", ".", "e", "x", "e">>,
                          <<"f", ".", "e", "x", "e", "?", "v">> >>
      [] OTHER -> << >>

\* Whether the response for url has a Content-Type containing text/html.
IsHtml(url) == url \in {UrlSeed, UrlP, UrlQ}

\* The src values of the <img> tags of each page, as written in the page:
\* http://o/p and http://a/q show the same picture, http://a/l.png.
ImageSrcs(url) ==
    CASE url = UrlP -> << HTTP \o <<"a", "/", "l", ".", "p", "n", "g">> >>
      [] url = UrlQ -> << <<"l", ".", "p", "n", "g">> >>
      [] OTHER -> << >>

\* ------------------------------------------------------------------- state
VARIABLES
    \* configuration (set by __init__, never changed)
    max_depth, follow_external, file_types, num_threads,
    \* whether the caller of start() passes a progress callback
    callback_arg,
    \* session state of the WebScraper object
    running, visited_urls, queue, unfinished_tasks,
    \* self.progress_callback is set; the worker that holds self.lock while
    \* the callback runs (0: none does)
    progress_callback, lock_holder,
    total_pages, downloaded_pages, failed_pages,
    \* the thread that runs start() with its list `workers` of the threads
    \* it has started, and the worker threads
    main_pc, workers, wpc, wtask, wlinks, wresult, wsaved,
    \* for each worker, how many resources of the page it is processing
    \* have been dealt with, and the local file it is writing (<<>>: none)
    wnext, wwriting,
    \* history: what the session has done so far
    put_count, fetch_count, wrecorded, failed_urls, starts,
    \* how many tasks in a row each live worker has taken from the queue with
    \* running False
    wtaken,
    \* the calls of the progress callback: how many, and the argument of the
    \* latest
    callback_calls, last_snapshot,
    \* the last call of a method of the scraper made on its own: the method,
    \* its arguments, what it returned and whether it raised
    call,
    \* the directories and the files under the output directory
    fs_dirs, fs_files,
    \* the path _get_local_path has returned for each URL (<<>>: none yet)
    mapped

config == <<max_depth, follow_external, file_types, num_threads, callback_arg>>
session == <<running, visited_urls, queue, unfinished_tasks>>
stats == <<total_pages, downloaded_pages, failed_pages>>
threads == <<main_pc, workers, wpc, wtask, wlinks, wresult, wsaved, wnext,
            wwriting>>
history == <<put_count, fetch_count, wrecorded, failed_urls, starts, wtaken>>
callback == <<progress_callback, lock_holder, callback_calls, last_snapshot>>
crawl == <<config, session, stats, threads, history, callback>>
calls == <<call, fs_dirs, fs_files, mapped>>
vars == <<crawl, calls>>

\* The worker threads that can come to exist: each call of start() starts
\* num_threads new ones.
Workers == 1..(MaxThreads * MaxStarts)

base_url == UrlSeed
\* self.base_domain = urllib.parse.urlparse(base_url).netloc
base_domain == urlparse(base_url).netloc

NoTask == [url |-> <<>>, depth |-> -1]

NoSnapshot == [total_pages |-> -1, downloaded_pages |-> -1, failed_pages |-> -1]

NoCall == [fn |-> "none", args |-> <<>>, ret |-> <<>>, raised |-> FALSE]

ExtExe == <<".", "e", "x", "e">>
ExtBin == <<".", "b", "i", "n">>
\* unwanted_exts = ['.exe', '.bin']
unwanted_exts == {ExtExe, ExtBin}

\* The values of file_types a session is run with: a set of extensions, each
\* starting with '.'.
FileTypeChoices == {{}, {ExtExe}}

\* ---------------------------------------------------------------- URL rules
\* WebScraper._is_valid_url
IsValidUrl_NoHostCheck(url, fe, ft) ==
    IF url = <<>> \/ ~IsHttp(url) THEN FALSE
    ELSE IF \E ext \in unwanted_exts : EndsWith(url, ext) THEN FALSE
    ELSE TRUE

\* The body of _is_valid_url, self.follow_external and self.file_types being
\* given.
IsValidUrl(url, fe, ft) ==
    IF url = <<>> \/ ~IsHttp(url) THEN FALSE
    ELSE IF ~fe /\ urlparse(url).netloc # base_domain THEN FALSE
    ELSE IF \E ext \in unwanted_exts : EndsWith(url, ext) THEN FALSE
    ELSE IF ft # {} /\ (\E ext \in ft : EndsWith(url, ext)) THEN TRUE
    ELSE TRUE

_is_valid_url(url) == IsValidUrl(url, follow_external, file_types)

\* WebScraper._normalize_url; <<>> stands for None (and for the empty text,
\* which the callers treat alike: `if normalized_url and ...`).
_normalize_url(url, parent_url) ==
    IF url = <<>> THEN <<>>
    ELSE LET stripped == BeforeHash(url)
         IN  IF ~IsHttp(stripped) THEN urljoin(parent_url, stripped)
             ELSE stripped

\* The links _process_html returns for the page at url: the normalized href
\* of every <a> tag that is not empty and passes _is_valid_url, in page
\* order; self.follow_external and self.file_types being given.
AnchorLinks(hrefs, url, fe, ft) ==
    LET normalized == [i \in 1..Len(hrefs) |-> _normalize_url(hrefs[i], url)]
        Keep(normalized_url) == normalized_url # <<>> /\ IsValidUrl(normalized_url, fe, ft)
    IN  SelectSeq(normalized, Keep)

ProcessHtmlLinks(url, fe, ft) == AnchorLinks(Anchors(url), url, fe, ft)

\* WebScraper._should_download_file
ShouldDownloadFile_CaseSensitive(url, ft) ==
    IF ft = {} THEN FALSE
    ELSE \E ext \in ft : EndsWith(url, ext)

_should_download_file(url, ft) ==
    IF ft = {} THEN FALSE
    ELSE \E ext \in ft : EndsWith(Lower(url), Lower(ext))

\* ProcessHtmlLinks on every page of the site, worked out once.
LinksTable ==
    [fe \in BOOLEAN |-> [ft \in FileTypeChoices |->
        [u \in AllUrls |-> ProcessHtmlLinks(u, fe, ft)]]]

_process_html(url) == LinksTable[follow_external][file_types][url]

\* ------------------------------------------------------------ construction
\* The fields WebScraper.__init__ sets, visited_urls being given, and the
\* call of a method that is about to be made on the scraper.
ConstructedWith(visited, pending) ==
    /\ max_depth \in 1..MaxDepthBound
    /\ follow_external \in BOOLEAN
    /\ file_types \in FileTypeChoices
    /\ num_threads \in 1..MaxThreads
    /\ running = FALSE
    /\ visited_urls = visited
    /\ queue = << [url |-> base_url, depth |-> 0] >>
    /\ unfinished_tasks = 1
    /\ total_pages = 0
    /\ downloaded_pages = 0
    /\ failed_pages = 0
    /\ main_pc = "init"
    /\ workers = {}
    /\ wpc = [w \in Workers |-> "unstarted"]
    /\ wtask = [w \in Workers |-> NoTask]
    /\ wlinks = [w \in Workers |-> <<>>]
    /\ wresult = [w \in Workers |-> "none"]
    /\ wsaved = [w \in Workers |-> FALSE]
    /\ call = pending
    /\ fs_dirs = {}
    /\ fs_files = {}
    /\ mapped = [u \in PathUrls |-> <<>>]
    /\ wnext = [w \in Workers |-> 0]
    /\ wwriting = [w \in Workers |-> <<>>]
    /\ put_count = [u \in AllUrls |-> IF u = base_url THEN 1 ELSE 0]
    /\ fetch_count = [u \in AllUrls |-> 0]
    /\ wrecorded = [w \in Workers |-> 0]
    /\ failed_urls = {}
    /\ starts = 0
    /\ wtaken = [w \in Workers |-> 0]
    /\ progress_callback = FALSE
    /\ lock_holder = 0
    /\ callback_calls = 0
    /\ last_snapshot = NoSnapshot

\* WebScraper.__init__: the seed is put on the queue at depth 0, nothing is
\* visited, the counters are 0, there is no progress callback and the
\* scraper is not running.
Constructed == ConstructedWith({}, NoCall)

\* A scraper that is started as the two programs of the repository start it
\* (InteractiveMenu.start_scraping and the ScraperWorker of the GUI):
\* start() with no progress callback.
Init == Constructed /\ callback_arg = FALSE

\* A scraper that is started with a progress callback.
InitCallback == Constructed /\ callback_arg = TRUE

\* ------------------------------------------------------------- the workers
\* `while self.running:` at the top of WebScraper.worker; the thread ends
\* when it reads False.
LoopTest_AlwaysTrue == TRUE

LoopTest == running

WLoop(w) ==
    /\ wpc[w] = "loop"
    /\ wpc' = [wpc EXCEPT ![w] = IF LoopTest THEN "get" ELSE "dead"]
    /\ wtaken' = [wtaken EXCEPT ![w] = IF LoopTest THEN @ ELSE 0]
    /\ UNCHANGED <<config, workers, session, stats, main_pc, wtask, wlinks,
                   wresult, wsaved, put_count, fetch_count, wrecorded,
                   failed_urls, starts, callback, wnext, wwriting, calls>>

\* `url, depth = self.queue.get(timeout=1)`; on queue.Empty, `continue`.
WGet(w) ==
    /\ wpc[w] = "get"
    /\ IF queue # <<>>
       THEN /\ wtask' = [wtask EXCEPT ![w] = Head(queue)]
            /\ queue' = Tail(queue)
            /\ wpc' = [wpc EXCEPT ![w] = "mark"]
            /\ wrecorded' = [wrecorded EXCEPT ![w] = 0]
            /\ wtaken' = [wtaken EXCEPT ![w] = IF running THEN 0 ELSE @ + 1]
            /\ wnext' = [wnext EXCEPT ![w] = 0]
       ELSE /\ wpc' = [wpc EXCEPT ![w] = "loop"]
            /\ UNCHANGED <<wtask, queue, wrecorded, wtaken, wnext>>
    /\ UNCHANGED <<config, workers, running, visited_urls, unfinished_tasks,
                   stats, main_pc, wlinks, wresult, wsaved, put_count,
                   fetch_count, failed_urls, starts, callback, wwriting, calls>>

\* `if url in self.visited_urls` of the worker (under the lock).
AlreadyVisited_Never(url) == FALSE

AlreadyVisited(url) == url \in visited_urls

\* `self.total_pages += 1` of the worker.
TotalAfterMark_Forgotten == total_pages

TotalAfterMark == total_pages + 1

\* The worker's first block under the lock: a task whose URL is visited is
\* dropped (task_done, continue); otherwise the URL is marked visited and
\* total_pages goes up.
WMark(w) ==
    /\ wpc[w] = "mark"
    /\ lock_holder = 0
    /\ IF AlreadyVisited(wtask[w].url)
       THEN /\ unfinished_tasks' = unfinished_tasks - 1
            /\ wpc' = [wpc EXCEPT ![w] = "loop"]
            /\ wtask' = [wtask EXCEPT ![w] = NoTask]
            /\ UNCHANGED <<visited_urls, total_pages>>
       ELSE /\ visited_urls' = visited_urls \cup {wtask[w].url}
            /\ total_pages' = TotalAfterMark
            /\ wpc' = [wpc EXCEPT ![w] = "download"]
            /\ UNCHANGED <<unfinished_tasks, wtask>>
    /\ UNCHANGED <<config, workers, running, queue, downloaded_pages,
                   failed_pages, main_pc, wlinks, wresult, wsaved, history,
                   callback, wnext, wwriting, calls>>

\* `if depth < self.max_depth:` of download_page.
DepthAllows_Inclusive(depth) == depth <= max_depth

DepthAllows(depth) == depth < max_depth

\* What session.get and the processing of the response can come to: the
\* page is fetched and saved, the status is not 200, or an exception is
\* raised (by the request, the parser or a file write).
FetchResults == {"ok", "http_error", "exception"}

\* Whether a file was opened for writing for the page: it is when the page is
\* saved (by _process_html, or as it is when it is not HTML), it is not when
\* the status is not 200, and an exception comes before the file is opened
\* (the request, the parser, makedirs) or after (the write).
SavedChoices(result) ==
    CASE result = "ok" -> {TRUE}
      [] result = "http_error" -> {FALSE}
      [] OTHER -> BOOLEAN

\* download_page up to the point where the links of the page are known:
\* the request, and for an HTML page _process_html.
WDownload(w) ==
    /\ wpc[w] = "download"
    /\ fetch_count' = [fetch_count EXCEPT ![wtask[w].url] = @ + 1]
    /\ \E result \in FetchResults :
          /\ wresult' = [wresult EXCEPT ![w] = result]
          /\ \E saved \in SavedChoices(result) :
                wsaved' = [wsaved EXCEPT ![w] = saved]
          /\ LET links == IF result = "ok" /\ IsHtml(wtask[w].url)
                             /\ DepthAllows(wtask[w].depth)
                          THEN _process_html(wtask[w].url)
                          ELSE <<>>
             IN  /\ wlinks' = [wlinks EXCEPT ![w] = links]
                 /\ wpc' = [wpc EXCEPT ![w] =
                                IF links # <<>> THEN "enqueue" ELSE "record"]
    /\ UNCHANGED <<config, workers, session, stats, main_pc, wtask, put_count,
                   wrecorded, failed_urls, starts, callback, wtaken, wnext,
                   wwriting, calls>>

\* `if link not in self.visited_urls` of download_page (under the lock).
NotVisited_Always(link) == TRUE

NotVisited(link) == link \notin visited_urls

\* `depth + 1` of `self.queue.put((link, depth + 1))`.
ChildDepth_Same(depth) == depth

ChildDepth(depth) == depth + 1

\* One turn of `for link in links:` in download_page: under the lock, the
\* link is put on the queue at depth + 1 unless it is in visited_urls.
WEnqueue(w) ==
    /\ wpc[w] = "enqueue"
    /\ lock_holder = 0
    /\ LET link == Head(wlinks[w])
       IN  IF NotVisited(link)
           THEN /\ queue' = Append(queue, [url |-> link,
                                            depth |-> ChildDepth(wtask[w].depth)])
                /\ unfinished_tasks' = unfinished_tasks + 1
                /\ put_count' = [put_count EXCEPT ![link] = @ + 1]
           ELSE UNCHANGED <<queue, unfinished_tasks, put_count>>
    /\ wlinks' = [wlinks EXCEPT ![w] = Tail(@)]
    /\ wpc' = [wpc EXCEPT ![w] = IF Tail(wlinks[w]) # <<>> THEN "enqueue" ELSE "record"]
    /\ UNCHANGED <<config, workers, running, visited_urls, stats, main_pc,
                   wtask, wresult, wsaved, fetch_count, wrecorded, failed_urls,
                   starts, callback, wtaken, wnext, wwriting, calls>>

\* `self.downloaded_pages += 1`, reached only for a page that was fetched
\* with status 200 and processed without an exception.
DownloadedAfter(result) ==
    IF result = "ok" THEN downloaded_pages + 1 ELSE downloaded_pages

\* `self.failed_pages += 1`, in the branch of a status other than 200 and in
\* the exception handler.
FailedAfter_OnlyException(result) ==
    IF result = "exception" THEN failed_pages + 1 ELSE failed_pages

FailedAfter_OnlyHttpError(result) ==
    IF result = "http_error" THEN failed_pages + 1 ELSE failed_pages

FailedAfter(result) ==
    IF result \in {"http_error", "exception"} THEN failed_pages + 1 ELSE failed_pages

\* The dictionary the progress callback is called with, made of the counters
\* c = <<total_pages, downloaded_pages, failed_pages>>.
Snapshot(c) == [total_pages |-> c[1], downloaded_pages |-> c[2], failed_pages |-> c[3]]

\* The last block of download_page under the lock: one of the two counters
\* goes up and, if there is a progress callback, it is called with the three
\* counters as they are then; the lock is held until the callback returns.
WRecord(w) ==
    /\ wpc[w] = "record"
    /\ lock_holder = 0
    /\ downloaded_pages' = DownloadedAfter(wresult[w])
    /\ failed_pages' = FailedAfter(wresult[w])
    /\ wrecorded' = [wrecorded EXCEPT ![w] =
                         @ + (downloaded_pages' - downloaded_pages)
                           + (failed_pages' - failed_pages)]
    /\ failed_urls' = IF failed_pages' > failed_pages
                       THEN failed_urls \cup {wtask[w].url}
                       ELSE failed_urls
    /\ IF progress_callback
       THEN /\ wpc' = [wpc EXCEPT ![w] = "callback"]
            /\ lock_holder' = w
            /\ callback_calls' = callback_calls + 1
            /\ last_snapshot' =
                   Snapshot(<<total_pages, downloaded_pages', failed_pages'>>)
       ELSE /\ wpc' = [wpc EXCEPT ![w] = "sleep"]
            /\ UNCHANGED <<lock_holder, callback_calls, last_snapshot>>
    /\ UNCHANGED <<config, workers, session, total_pages, main_pc, wtask,
                   wlinks, wresult, wsaved, put_count, fetch_count, starts,
                   progress_callback, wtaken, wnext, wwriting, calls>>

\* The progress callback returns: the `with self.lock:` block ends and
\* download_page returns.
WCallback(w) ==
    /\ wpc[w] = "callback"
    /\ lock_holder' = 0
    /\ wpc' = [wpc EXCEPT ![w] = "sleep"]
    /\ UNCHANGED <<config, workers, session, stats, main_pc, wtask, wlinks,
                   wresult, wsaved, history, progress_callback, callback_calls,
                   last_snapshot, wnext, wwriting, calls>>

\* `time.sleep(self.delay)` and `self.queue.task_done()`, then back to the
\* top of the loop.
WTaskDone(w) ==
    /\ wpc[w] = "sleep"
    /\ unfinished_tasks' = unfinished_tasks - 1
    /\ wtask' = [wtask EXCEPT ![w] = NoTask]
    /\ wresult' = [wresult EXCEPT ![w] = "none"]
    /\ wsaved' = [wsaved EXCEPT ![w] = FALSE]
    /\ wrecorded' = [wrecorded EXCEPT ![w] = 0]
    /\ wpc' = [wpc EXCEPT ![w] = "loop"]
    /\ UNCHANGED <<config, workers, running, visited_urls, queue, stats,
                   main_pc, wlinks, put_count, fetch_count, failed_urls, starts,
                   callback, wtaken, wnext, wwriting, calls>>

\* The local paths of the images of the page at url, in page order: the
\* files _process_html has _download_resource write (download_images being
\* on).
ResourcePaths ==
    [u \in AllUrls |->
        [i \in 1..Len(ImageSrcs(u)) |-> _get_local_path(_normalize_url(ImageSrcs(u)[i], u))]]

\* _download_resource gets status 200 for the next image of the page and
\* opens its local file for writing.
WResourceOpen(w) ==
    /\ wpc[w] = "download"
    /\ wwriting[w] = <<>>
    /\ wnext[w] < Len(ResourcePaths[wtask[w].url])
    /\ wwriting' = [wwriting EXCEPT ![w] = ResourcePaths[wtask[w].url][wnext[w] + 1]]
    /\ UNCHANGED <<config, session, stats, main_pc, workers, wpc, wtask, wlinks,
                   wresult, wsaved, wnext, history, callback, calls>>

\* The content is written and the file closed.
WResourceClose(w) ==
    /\ wwriting[w] # <<>>
    /\ wwriting' = [wwriting EXCEPT ![w] = <<>>]
    /\ wnext' = [wnext EXCEPT ![w] = @ + 1]
    /\ UNCHANGED <<config, session, stats, main_pc, workers, wpc, wtask, wlinks,
                   wresult, wsaved, history, callback, calls>>

\* _download_resource returns False for the next image of the page (a
\* status other than 200, or an exception): nothing is written.
WResourceFail(w) ==
    /\ wpc[w] = "download"
    /\ wwriting[w] = <<>>
    /\ wnext[w] < Len(ResourcePaths[wtask[w].url])
    /\ wnext' = [wnext EXCEPT ![w] = @ + 1]
    /\ UNCHANGED <<config, session, stats, main_pc, workers, wpc, wtask, wlinks,
                   wresult, wsaved, wwriting, history, callback, calls>>

\* download_page, the downloads of the images of the page being steps of
\* their own: a page that is saved has had all its images dealt with, one
\* that raised an exception some of them, one whose status is not 200 none.
WDownloadAfterResources(w) ==
    /\ wwriting[w] = <<>>
    /\ WDownload(w)
    /\ CASE wresult'[w] = "ok" -> wnext[w] = Len(ResourcePaths[wtask[w].url])
         [] wresult'[w] = "http_error" -> wnext[w] = 0
         [] OTHER -> TRUE

WorkerWithResources(w) ==
    \/ WLoop(w)
    \/ WGet(w)
    \/ WMark(w)
    \/ WResourceOpen(w)
    \/ WResourceClose(w)
    \/ WResourceFail(w)
    \/ WDownloadAfterResources(w)
    \/ WEnqueue(w)
    \/ WRecord(w)
    \/ WTaskDone(w)

Worker(w) ==
    \/ WLoop(w)
    \/ WGet(w)
    \/ WMark(w)
    \/ WDownload(w)
    \/ WEnqueue(w)
    \/ WRecord(w)
    \/ WTaskDone(w)

\* ------------------------------------------------------------ start, stop
\* t.is_alive() of a worker thread.
is_alive(w) == wpc[w] \notin {"unstarted", "dead"}

\* The first lines of start(): running is set, visited_urls is replaced by
\* an empty set.
StartCall ==
    /\ main_pc = "init"
    /\ running' = TRUE
    /\ visited_urls' = {}
    /\ progress_callback' = callback_arg
    /\ main_pc' = "spawn"
    /\ workers' = {}
    /\ starts' = starts + 1
    /\ wtaken' = [w \in Workers |-> 0]
    /\ UNCHANGED <<config, queue, unfinished_tasks, stats, wpc, wtask, wlinks,
                   wresult, wsaved, put_count, fetch_count, wrecorded,
                   failed_urls, lock_holder, callback_calls, last_snapshot,
                   wnext, wwriting, calls>>

\* start() called again on the same object, after an earlier call has
\* returned: the same first lines.  The queue and the three counters are
\* what the earlier call left, the threads of this call are new ones, and
\* the threads of the earlier call that have not ended yet go on with the
\* same object.  The history starts afresh with the session (what is on the
\* queue was put there by an earlier one).
StartAgain ==
    /\ main_pc = "returned"
    /\ starts < MaxStarts
    /\ running' = TRUE
    /\ visited_urls' = {}
    /\ progress_callback' = callback_arg
    /\ main_pc' = "spawn"
    /\ workers' = {}
    /\ starts' = starts + 1
    /\ wtaken' = [w \in Workers |-> 0]
    /\ put_count' = [u \in AllUrls |-> 0]
    /\ fetch_count' = [u \in AllUrls |-> 0]
    /\ failed_urls' = {}
    /\ UNCHANGED <<config, queue, unfinished_tasks, stats, wpc, wtask, wlinks,
                   wresult, wsaved, wrecorded, lock_holder, callback_calls,
                   last_snapshot, wnext, wwriting, calls>>

\* One turn of `for _ in range(self.num_threads):` a worker thread is
\* started.
Spawn ==
    /\ main_pc = "spawn"
    /\ LET w == CHOOSE x \in Workers :
                   wpc[x] = "unstarted" /\ \A y \in 1..(x - 1) : wpc[y] # "unstarted"
       IN  /\ wpc' = [wpc EXCEPT ![w] = "loop"]
           /\ workers' = workers \cup {w}
           /\ main_pc' = IF Cardinality(workers') = num_threads
                          THEN "poll" ELSE "spawn"
    /\ UNCHANGED <<config, session, stats, wtask, wlinks, wresult, wsaved,
                   history, callback, wnext, wwriting, calls>>

\* The test that ends the waiting loop of start().
PollBreaks == queue = <<>> /\ \A w \in workers : ~is_alive(w)

\* One turn of `while self.running:` in start(): the loop is left when
\* running is False, or when the queue is empty and no worker is alive;
\* otherwise start() sleeps and tests again.
Poll ==
    /\ main_pc = "poll"
    /\ main_pc' = IF ~running \/ PollBreaks THEN "finally" ELSE "poll"
    /\ UNCHANGED <<config, workers, session, stats, wpc, wtask, wlinks, wresult,
                   wsaved, history, callback, wnext, wwriting, calls>>

\* KeyboardInterrupt raised in the waiting loop of start().
Interrupt ==
    /\ main_pc = "poll"
    /\ main_pc' = "finally"
    /\ UNCHANGED <<config, workers, session, stats, wpc, wtask, wlinks, wresult,
                   wsaved, history, callback, wnext, wwriting, calls>>

\* The finally block of start(): running is set to False.
Finally ==
    /\ main_pc = "finally"
    /\ running' = FALSE
    /\ main_pc' = "join"
    /\ UNCHANGED <<config, workers, visited_urls, queue, unfinished_tasks,
                   stats, wpc, wtask, wlinks, wresult, wsaved, history,
                   callback, wnext, wwriting, calls>>

\* `for t in workers: t.join(timeout=1)`: each join returns when the thread
\* has ended or after a second, so start() goes on whatever the workers do.
Join ==
    /\ main_pc = "join"
    /\ main_pc' = "returned"
    /\ UNCHANGED <<config, workers, session, stats, wpc, wtask, wlinks, wresult,
                   wsaved, history, callback, wnext, wwriting, calls>>

\* stop(), called from another thread while start() runs (a call that finds
\* running False already changes nothing).
Stop ==
    /\ main_pc \in {"spawn", "poll"}
    /\ running
    /\ running' = FALSE
    /\ UNCHANGED <<config, workers, visited_urls, queue, unfinished_tasks,
                   stats, threads, history, callback, wnext, wwriting, calls>>

Main ==
    \/ StartCall
    \/ Spawn
    \/ Poll
    \/ Finally
    \/ Join

Next ==
    \/ \E w \in Workers : Worker(w)
    \/ Main
    \/ Stop
    \/ Interrupt

Spec == Init /\ [][Next]_vars

\* The threads are scheduled fairly: a worker thread that can take a step
\* takes one, and so does the thread that runs start().  Nothing makes
\* anybody call stop() or interrupt the program.
FairSpec ==
    /\ Spec
    /\ \A w \in Workers : WF_vars(Worker(w))
    /\ WF_vars(Main)

\* A scraper that is started with a progress callback, which the workers
\* call.
NextCallback == Next \/ \E w \in Workers : WCallback(w)

CallbackSpec == InitCallback /\ [][NextCallback]_vars

\* The crawl with the writing of the image files as steps of its own.
NextWithResources ==
    \/ \E w \in Workers : WorkerWithResources(w)
    \/ Main
    \/ Stop
    \/ Interrupt

ResourceSpec == Init /\ [][NextWithResources]_vars

\* ------------------------------------------------- the methods on their own
\* A constructed scraper whose methods are called one at a time.
InitCalls == Init /\ max_depth = 1 /\ num_threads = 1

\* self._normalize_url(url, parent_url)
CallNormalize ==
    \E url \in Hrefs, parent_url \in Parents :
        /\ call' = [fn |-> "_normalize_url", args |-> <<url, parent_url>>,
                    ret |-> _normalize_url(url, parent_url), raised |-> FALSE]
        /\ UNCHANGED <<crawl, fs_dirs, fs_files, mapped>>

\* self._is_valid_url(url), on the normalized links and on the raw hrefs.
UrlInputs ==
    AllUrls \cup Hrefs \cup {_normalize_url(h, p) : h \in Hrefs, p \in Parents}

CallIsValidUrl ==
    \E url \in UrlInputs :
        /\ call' = [fn |-> "_is_valid_url", args |-> <<url>>,
                    ret |-> _is_valid_url(url), raised |-> FALSE]
        /\ UNCHANGED <<crawl, fs_dirs, fs_files, mapped>>

NextUrlCalls == CallNormalize \/ CallIsValidUrl

UrlSpec == InitCalls /\ [][NextUrlCalls]_vars

\* The directory and the directories above it, as makedirs goes through
\* them.
Ancestors(directory) ==
    {SubSeq(directory, 1, i) : i \in {j \in 1..Len(directory) :
                                         j = Len(directory) \/ directory[j + 1] = "/"}}

\* _get_local_path on every URL that is mapped, and the directories its
\* makedirs goes through, worked out once.
LocalPathTable == [u \in PathUrls |-> _get_local_path(u)]
DirectoriesTable == [u \in PathUrls |-> Ancestors(dirname(_get_local_path(u)))]

\* os.makedirs(directory, exist_ok=True) raises when the directory or one
\* above it is there as a file, and creates nothing then.
MakedirsRaises(directories) == directories \cap fs_files # {}

\* A constructed scraper whose path methods are called one at a time; they
\* read output_dir only.
InitPaths == InitCalls /\ ~follow_external /\ file_types = {}

\* self._get_local_path(url); again tells that an earlier call returned a
\* path for the same URL.
CallGetLocalPath ==
    \E url \in PathUrls :
        LET raises == MakedirsRaises(DirectoriesTable[url])
        IN  /\ call' = [fn |-> "_get_local_path", args |-> <<url>>,
                        ret |-> IF raises THEN <<>> ELSE LocalPathTable[url],
                        raised |-> raises, again |-> mapped[url] # <<>>]
            /\ fs_dirs' = IF raises THEN fs_dirs ELSE fs_dirs \cup DirectoriesTable[url]
            /\ mapped' = IF raises THEN mapped
                          ELSE [mapped EXCEPT ![url] = LocalPathTable[url]]
            /\ UNCHANGED <<crawl, fs_files>>

\* open(local_path, 'w') succeeds unless the path is a directory.
OpenSucceeds_Always(local_path) == TRUE

OpenSucceeds(local_path) == local_path \notin fs_dirs

\* The caller of _get_local_path opens the path it was given and writes the
\* content there (the page, the file or the resource).
WriteFile ==
    \E url \in PathUrls :
        /\ mapped[url] # <<>>
        /\ call' = [fn |-> "open", args |-> <<mapped[url]>>, ret |-> <<>>,
                    raised |-> ~OpenSucceeds(mapped[url])]
        /\ fs_files' = IF OpenSucceeds(mapped[url]) THEN fs_files \cup {mapped[url]}
                        ELSE fs_files
        /\ UNCHANGED <<crawl, fs_dirs, mapped>>

NextPathCalls == CallGetLocalPath \/ WriteFile

PathSpec == InitPaths /\ [][NextPathCalls]_vars

\* ---------------------------------------------------------- page processing
\* The page that is processed, and what its tags refer to: a picture beside
\* the parent of the page, a file on another host whose extension is
\* written in capitals, and a file with a hard-blocked extension.  No
\* local path of these is a directory of another, so no _get_local_path of
\* the processing raises.
PageUrl == UrlQ
UrlUpperExe == HTTP \o <<"o", "/", "F", ".", "E", "X", "E">>
RefPng == <<"l", ".", "p", "n", "g">>
RefExe == <<"f", ".", "e", "x", "e">>
Refs == {RefPng, UrlUpperExe, RefExe}

\* The tags of a page: <img src>, <link rel="stylesheet" href>,
\* <script src> and <a href>.
Tags ==
    [tag : {"img"}, ref : {RefPng, UrlUpperExe}]
        \cup [tag : {"link", "script"}, ref : {RefPng}]
        \cup [tag : {"a"}, ref : Refs]

Pages == UNION {[1..n -> Tags] : n \in 0..MaxTags}

\* self.download_images, self.download_css, self.download_js
Flags == [download_images : BOOLEAN, download_css : BOOLEAN, download_js : BOOLEAN]

Flag(flags, tag) ==
    CASE tag = "img" -> flags.download_images
      [] tag = "link" -> flags.download_css
      [] tag = "script" -> flags.download_js
      [] OTHER -> FALSE

\* For each reference of the page: the URL _normalize_url makes of it, the
\* local path of that URL, that path relative to the directory of the
\* page's own file, and whether _should_download_file wants it.
PagePath == _get_local_path(PageUrl)
RefTarget == [r \in Refs |-> _normalize_url(r, PageUrl)]
RefPath == [r \in Refs |-> _get_local_path(RefTarget[r])]
RefRelative == [r \in Refs |-> relpath(RefPath[r], dirname(PagePath))]

\* What _process_html works out for a reference, self.follow_external and
\* self.file_types being given: the target, its local path, that path
\* relative to the page's directory, the directories makedirs goes
\* through, whether _should_download_file wants the target and whether
\* the target is kept as a link.
RefRecordAt(target, local_path, fe, ft) ==
    [target |-> target,
     local_path |-> local_path,
     relative |-> relpath(local_path, dirname(PagePath)),
     directories |-> Ancestors(dirname(local_path)),
     wanted |-> _should_download_file(target, ft),
     valid |-> target # <<>> /\ IsValidUrl(target, fe, ft)]

RefRecord(target, fe, ft) == RefRecordAt(target, _get_local_path(target), fe, ft)

\* RefRecord on every reference, worked out once.
RefInfo ==
    [fe \in BOOLEAN |-> [ft \in FileTypeChoices |->
        [r \in Refs |-> RefRecord(_normalize_url(r, PageUrl), fe, ft)]]]

\* _download_resource is called for tag t of the page: in the loop of its
\* kind when the flag of the kind is on, for an anchor when the target has
\* one of the extensions of file_types.
Attempted(info, flags, t) ==
    /\ info[t.ref].target # <<>>
    /\ IF t.tag = "a" THEN info[t.ref].wanted ELSE Flag(flags, t.tag)

\* The attribute of a tag is set to the local path when the tag is not an
\* anchor and its _download_resource returned True.
Rewritten_AnyTag(tag, downloaded) == downloaded

Rewritten(tag, downloaded) == tag # "a" /\ downloaded

\* The calls of _download_resource, in page order, given the tags they are
\* made for.
AttemptsFor(info, tags) ==
    [k \in 1..Len(tags) |-> [url |-> info[tags[k].ref].target,
                             local_path |-> info[tags[k].ref].local_path]]

\* The tags of one kind for which _download_resource is called.
AttemptedTags(info, page, flags, tag) ==
    LET Is(t) == t.tag = tag /\ Attempted(info, flags, t)
    IN  SelectSeq(page, Is)

\* The links _process_html returns, given the anchors that are kept.
LinksFor(info, anchors) == [i \in 1..Len(anchors) |-> info[anchors[i].ref].target]

\* What _process_html does with a page: the links it returns, the calls
\* of _download_resource it makes (images, stylesheets, scripts, then the
\* anchors of the extra file types), and the tags it saves; ok is the set
\* of tags whose _download_resource, if called, returns True.
ProcessHtmlPage(info, page, flags, ok) ==
    LET IsLink(t) == t.tag = "a" /\ info[t.ref].valid
    IN  [links |-> LinksFor(info, SelectSeq(page, IsLink)),
         attempts |-> AttemptsFor(info, AttemptedTags(info, page, flags, "img")
                                           \o AttemptedTags(info, page, flags, "link")
                                           \o AttemptedTags(info, page, flags, "script")
                                           \o AttemptedTags(info, page, flags, "a")),
         saved |-> [i \in 1..Len(page) |->
                       IF Rewritten(page[i].tag, Attempted(info, flags, page[i]) /\ i \in ok)
                       THEN [tag |-> page[i].tag, ref |-> info[page[i].ref].relative]
                       ELSE page[i]]]

\* The directories and the files _process_html leaves behind: those of the
\* page's own file and of every resource it mapped or downloaded.
DirsAfter(info, page, attempted) ==
    fs_dirs \cup Ancestors(dirname(PagePath))
            \cup UNION {info[page[i].ref].directories : i \in attempted}

FilesAfter(info, page, downloaded) ==
    fs_files \cup {PagePath} \cup {info[page[i].ref].local_path : i \in downloaded}

ProcessHtmlCall(info, page, depth, flags, ok, attempted) ==
    /\ call' = [fn |-> "_process_html", args |-> <<page, depth, flags, ok>>,
                ret |-> ProcessHtmlPage(info, page, flags, ok), raised |-> FALSE]
    /\ fs_dirs' = DirsAfter(info, page, attempted)
    /\ fs_files' = FilesAfter(info, page, attempted \cap ok)

\* The tags of the page for which _download_resource is called.
AttemptedSet(info, page, flags) ==
    {i \in 1..Len(page) : Attempted(info, flags, page[i])}

ProcessHtmlWith(info, page, depth, flags, ok) ==
    ProcessHtmlCall(info, page, depth, flags, ok, AttemptedSet(info, page, flags))

\* A scraper one of whose workers is about to call _process_html on the
\* page: the seed and the page are visited, and the file on the other host
\* too when external links are followed.
InitPage ==
    \E visited \in {{UrlSeed, PageUrl}, {UrlSeed, PageUrl, UrlUpperExe}} :
        /\ ConstructedWith(visited, NoCall)
        /\ UrlUpperExe \in visited => follow_external
        /\ callback_arg = FALSE
        /\ max_depth = MaxDepthBound
        /\ num_threads = 1

\* self._process_html(html_content, url, depth), once, on a page at the
\* depth of the seed or at the greatest depth.
CallProcessHtml ==
    /\ call = NoCall
    /\ \E page \in Pages, depth \in {0, MaxDepthBound}, flags \in Flags,
          ok \in SUBSET (1..MaxTags) :
           /\ ok \subseteq 1..Len(page)
           /\ ProcessHtmlWith(RefInfo[follow_external][file_types], page, depth, flags, ok)
    /\ UNCHANGED <<crawl, mapped>>

NextPageCalls == CallProcessHtml

PageSpec == InitPage /\ [][NextPageCalls]_vars

\* A scraper object on which start() is called more than once.
NextRestart == Next \/ StartAgain

\* The scraper of RestartSpec has one worker thread for each call of
\* start() and crawls one level deep.
InitRestart == Init /\ max_depth = 1 /\ num_threads = 1

RestartSpec == InitRestart /\ [][NextRestart]_vars

\* ------------------------------------------------------- derived notions
\* A worker that has dequeued a task and not yet called task_done for it.
InFlight(w) ==
    wpc[w] \in {"mark", "download", "enqueue", "record", "callback", "sleep"}

\* A worker that is processing a task it has marked visited.
Processing(w) == wpc[w] \in {"download", "enqueue", "record", "callback", "sleep"}

\* The frontier is empty and no task is in flight.
Drained == queue = <<>> /\ \A w \in Workers : ~InFlight(w)

\* The URLs download_page has been called for.
Fetched == {u \in AllUrls : fetch_count[u] > 0}

\* The links of each page of the site under each configuration: what
\* _process_html returns for an HTML page (its hrefs, normalized, those that
\* pass the rules of _is_valid_url), nothing for another resource.
SiteLinks ==
    [fe \in BOOLEAN |-> [ft \in FileTypeChoices |-> [u \in AllUrls |->
        IF IsHtml(u)
        THEN {l \in {_normalize_url(Anchors(u)[i], u) : i \in 1..Len(Anchors(u))} :
                 l # <<>> /\ IsValidUrl(l, fe, ft)}
        ELSE {}]]]

LinksOf(u) == SiteLinks[follow_external][file_types][u]

\* More hops than any chain of links the model looks at.
MaxHops == Cardinality(AllUrls) + MaxDepthBound

\* WithinTable[fe][ft][k]: the URLs at most k link hops away from the seed.
WithinTable ==
    [fe \in BOOLEAN |-> [ft \in FileTypeChoices |->
        LET W[k \in 0..MaxHops] ==
                IF k = 0 THEN {base_url}
                ELSE W[k - 1] \cup UNION {SiteLinks[fe][ft][u] : u \in W[k - 1]}
        IN  W]]

Within(k) == WithinTable[follow_external][file_types][k]

\* ExactlyTable[fe][ft][k]: the URLs at the end of a chain of exactly k links
\* from the seed.
ExactlyTable ==
    [fe \in BOOLEAN |-> [ft \in FileTypeChoices |->
        LET E[k \in 0..MaxHops] ==
                IF k = 0 THEN {base_url}
                ELSE UNION {SiteLinks[fe][ft][u] : u \in E[k - 1]}
        IN  E]]

Exactly(k) == ExactlyTable[follow_external][file_types][k]

\* DistTable[fe][ft][u]: the BFS distance of u from the seed; MaxHops + 1 for
\* a URL no chain of links reaches.
DistTable ==
    [fe \in BOOLEAN |-> [ft \in FileTypeChoices |-> [u \in AllUrls |->
        IF u \in WithinTable[fe][ft][MaxHops]
        THEN CHOOSE k \in 0..MaxHops :
                 /\ u \in WithinTable[fe][ft][k]
                 /\ \A j \in 0..(k - 1) : u \notin WithinTable[fe][ft][j]
        ELSE MaxHops + 1]]]

Dist(u) == DistTable[follow_external][file_types][u]

\* The host part of each URL.
NetlocOf == [u \in AllUrls |-> urlparse(u).netloc]

\* The URL's path ends with a hard-blocked extension.
PathEndsBlocked(u) == \E ext \in unwanted_exts : EndsWith(urlparse(u).path, ext)

\* The URLs of the tasks on the queue and in the workers' hands.
QueuedUrls == {queue[i].url : i \in 1..Len(queue)}
HeldUrls == {wtask[w].url : w \in {x \in Workers : wtask[x] # NoTask}}

\* ------------------------------------------------------------------ claims

\* C1: once the frontier is empty and no task is in flight, start() returns
\* on its own: in every fair run, that of a session nobody stops or
\* interrupts included, a drained crawl leads to start() having returned.
C1_StartReturnsOnceDrained ==
    (main_pc = "poll" /\ Drained) ~> (main_pc = "returned")

C3_FetchedAtMostOnce == \A u \in AllUrls : fetch_count[u] <= 1

\* A URL was queued twice and dequeued twice, and fetched once.
C3_Witness ==
    \E u \in AllUrls :
        /\ put_count[u] >= 2
        /\ u \notin QueuedUrls
        /\ u \notin HeldUrls
        /\ fetch_count[u] = 1

\* C4: downloaded + failed <= total in every state, and none of the three
\* counters ever decreases.
C4_CountersBoundedAndMonotonic ==
    [][/\ downloaded_pages + failed_pages <= total_pages
       /\ downloaded_pages' + failed_pages' <= total_pages'
       /\ total_pages' >= total_pages
       /\ downloaded_pages' >= downloaded_pages
       /\ failed_pages' >= failed_pages]_vars

\* Pages were downloaded, a page failed, and every marked task has its outcome.
C4_Witness ==
    /\ downloaded_pages >= 1
    /\ failed_pages >= 1
    /\ downloaded_pages + failed_pages = total_pages

\* A step changes neither outcome counter, or adds 1 to exactly one of them.
AtMostOneOutcome ==
    \/ downloaded_pages' = downloaded_pages /\ failed_pages' = failed_pages
    \/ downloaded_pages' = downloaded_pages + 1 /\ failed_pages' = failed_pages
    \/ failed_pages' = failed_pages + 1 /\ downloaded_pages' = downloaded_pages

\* A step in which worker w calls task_done.
CallsTaskDone(w) == unfinished_tasks' = unfinished_tasks - 1 /\ wpc'[w] # wpc[w]

C6_DepthWithinLimit ==
    /\ \A i \in 1..Len(queue) : queue[i].depth <= max_depth
    /\ \A w \in Workers : wtask[w].depth <= max_depth
    /\ \A w \in Workers : wpc[w] = "enqueue" => wtask[w].depth < max_depth

\* A page at the depth limit that has links was processed, and none of its
\* links was put on the queue.
C6_Witness ==
    \E w \in Workers :
        /\ wpc[w] = "record"
        /\ wresult[w] = "ok"
        /\ wtask[w].depth = max_depth
        /\ LinksOf(wtask[w].url) # {}

\* C7: with follow_external false, every task on the queue or in a worker's
\* hands and every visited URL has the host of the seed.
C7_SameHostOnly ==
    ~follow_external =>
        \A u \in QueuedUrls \cup HeldUrls \cup visited_urls :
            NetlocOf[u] = base_domain

\* With follow_external false, a page with a link to another host was
\* processed below the depth limit.
C7_Witness ==
    /\ ~follow_external
    /\ \E w \in Workers :
          /\ wpc[w] = "record"
          /\ wresult[w] = "ok"
          /\ DepthAllows(wtask[w].depth)
          /\ \E i \in 1..Len(Anchors(wtask[w].url)) :
                urlparse(_normalize_url(Anchors(wtask[w].url)[i], wtask[w].url)).netloc
                    # base_domain

\* C8: no URL whose path ends with .exe or .bin is ever put on the queue.
C8_NoBlockedExtensionQueued ==
    \A u \in AllUrls : put_count[u] > 0 => ~PathEndsBlocked(u)

C10_DepthIsBfsDistance ==
    \A w \in Workers : Processing(w) => wtask[w].depth = Dist(wtask[w].url)

\* C10 as amended: the depth of every task a worker processes is the length
\* of a chain of links from the seed to its URL (so it is at least the BFS
\* distance, the seed having depth 0); with one worker and no failed fetch
\* it is the BFS distance.
C10_DepthIsLinkChainLength ==
    \A w \in Workers :
        Processing(w) =>
            /\ wtask[w].url \in Exactly(wtask[w].depth)
            /\ (num_threads = 1 /\ failed_pages = 0) =>
                   wtask[w].depth = Dist(wtask[w].url)

\* The only worker of a session without failure processes a page two links
\* away from the seed.
C10_Witness ==
    /\ num_threads = 1
    /\ failed_pages = 0
    /\ \E w \in Workers : Processing(w) /\ wtask[w].depth = 2

\* C11: after stop() is called while start() runs, start() returns and every
\* worker thread ends, in every fair run; and a thread ends only at the test
\* of its loop, with no task in its hands (the task it had when stop() was
\* called has gone through to task_done).
C11_StopLeadsToTermination ==
    /\ (main_pc \in {"spawn", "poll"} /\ ~running) ~>
           (main_pc = "returned" /\ \A w \in 1..num_threads : wpc[w] = "dead")
    /\ [][\A w \in Workers :
             (wpc'[w] = "dead" /\ wpc[w] # "dead") =>
                 (wpc[w] = "loop" /\ wtask[w] = NoTask /\ ~running)]_vars

\* stop() has been called while start() waits: one worker has seen the flag
\* and ended, another is still processing its task.
C11_Witness ==
    /\ main_pc = "poll"
    /\ ~running
    /\ \E w \in Workers : wpc[w] = "dead"
    /\ \E w \in Workers : Processing(w)

\* C12: once start() has returned no worker fetches a page, changes a
\* counter or the visited set, or puts a link on the queue.
C12_NoWorkerActsAfterReturn ==
    [][main_pc = "returned" =>
           UNCHANGED <<fetch_count, put_count, visited_urls, stats>>]_vars

\* C13: a task whose fetch or processing raises an exception adds exactly 1
\* to failed and nothing to downloaded, its worker goes on to task_done and
\* back to the top of its loop, and a worker thread ends only when running
\* is False.
C13_ExceptionCountsOneFailure ==
    [][\A w \in Workers :
          /\ (wresult[w] = "exception" /\ wpc[w] = "record" /\ wpc'[w] # wpc[w]) =>
                 /\ failed_pages' = failed_pages + 1
                 /\ downloaded_pages' = downloaded_pages
                 /\ wpc'[w] = "sleep"
          /\ (wresult[w] = "exception" /\ wpc[w] = "sleep" /\ wpc'[w] # wpc[w]) =>
                 /\ wrecorded[w] = 1
                 /\ wpc'[w] = "loop"
          /\ (wpc'[w] = "dead" /\ wpc[w] # "dead") => ~running]_vars

\* A worker has counted the failure of a task that raised an exception, in a
\* session that already counted an outcome and is still running.
C13_Witness ==
    /\ running
    /\ \E w \in Workers :
          /\ wpc[w] = "sleep"
          /\ wresult[w] = "exception"
          /\ wrecorded[w] = 1
          /\ downloaded_pages + failed_pages >= 2

\* C14: a task whose fetch returns a status other than 200 adds exactly 1 to
\* failed and nothing to downloaded, has no link to put on the queue and no
\* file written, and its worker goes on to task_done and back to the top of
\* its loop.
C14_HttpErrorCountsOneFailure ==
    [][\A w \in Workers :
          /\ wresult'[w] = "http_error" =>
                 /\ wlinks'[w] = <<>>
                 /\ ~wsaved'[w]
                 /\ wpc'[w] \in {"record", "sleep"}
                 /\ put_count' = put_count \/ wpc'[w] = wpc[w]
          /\ (wresult[w] = "http_error" /\ wpc[w] = "record" /\ wpc'[w] # wpc[w]) =>
                 /\ failed_pages' = failed_pages + 1
                 /\ downloaded_pages' = downloaded_pages
                 /\ wpc'[w] = "sleep"
          /\ (wresult[w] = "http_error" /\ wpc[w] = "sleep" /\ wpc'[w] # wpc[w]) =>
                 /\ wrecorded[w] = 1
                 /\ wpc'[w] = "loop"]_vars

\* The fetch of an HTML page with links, below the depth limit, has returned
\* a status other than 200 and its failure has been counted.
C14_Witness ==
    \E w \in Workers :
        /\ wpc[w] = "sleep"
        /\ wresult[w] = "http_error"
        /\ wrecorded[w] = 1
        /\ DepthAllows(wtask[w].depth)
        /\ LinksOf(wtask[w].url) # {}

C19_NoRetryAfterFailure ==
    [][\A u \in failed_urls :
           fetch_count'[u] = fetch_count[u] /\ put_count'[u] = put_count[u]]_vars

\* http://a/q has failed, and http://o/p, which links to it, has been
\* processed below the depth limit without putting it on the queue again.
C19_Witness ==
    /\ UrlQ \in failed_urls
    /\ put_count[UrlQ] = 1
    /\ fetch_count[UrlQ] = 1
    /\ \E w \in Workers :
          /\ wpc[w] = "record"
          /\ wresult[w] = "ok"
          /\ wtask[w].url = UrlP
          /\ DepthAllows(wtask[w].depth)
          /\ UrlQ \in LinksOf(UrlP)

\* C16: every call of start(), the first and a later one, leaves an empty
\* visited set, total = downloaded = failed = 0 and a queue holding exactly
\* the seed at depth 0.
C16_StartBeginsFresh ==
    [][(main_pc \in {"init", "returned"} /\ main_pc' = "spawn") =>
           /\ visited_urls' = {}
           /\ total_pages' = 0
           /\ downloaded_pages' = 0
           /\ failed_pages' = 0
           /\ queue' = << [url |-> base_url, depth |-> 0] >>]_vars

\* C17: total equals the number of URLs in the visited set, in every state.
C17_TotalIsVisitedCount == total_pages = Cardinality(visited_urls)

\* The URLs that have been put on the queue in the session, the seed included.
Admitted == {u \in AllUrls : put_count[u] > 0}

\* C18 as stated: at every point of a session total equals the number of
\* distinct URLs put on the queue so far, those still waiting included.
C18_TotalIsAdmittedCount ==
    main_pc # "init" => total_pages = Cardinality(Admitted)

\* C18 as amended: total counts the admitted URLs that a worker has taken
\* from the queue and marked visited, not those still waiting: it never
\* exceeds the number of distinct URLs admitted, and it equals that number
\* when the queue is empty and no task is in flight.
C18_TotalIsMarkedAdmittedCount ==
    main_pc # "init" =>
        /\ total_pages = Cardinality(Admitted \cap visited_urls)
        /\ total_pages <= Cardinality(Admitted)
        /\ Drained => total_pages = Cardinality(Admitted)

\* Pages have been taken and counted while admitted URLs that no worker has
\* taken yet wait on the queue.
C18_Witness ==
    /\ total_pages >= 2
    /\ \E u \in QueuedUrls : u \notin visited_urls
    /\ total_pages < Cardinality(Admitted)

\* downloaded + failed in the argument of the latest callback call; 0 before
\* the first call.
LastSnapshotSum ==
    IF last_snapshot = NoSnapshot THEN 0
    ELSE last_snapshot.downloaded_pages + last_snapshot.failed_pages

\* C20: with a progress callback, each task that is processed has the
\* callback called once, in the step that counts its outcome, with the three
\* counters as that step leaves them; at most one call is running at a
\* time, the counters do not change while it runs, every snapshot has
\* downloaded + failed <= total, and downloaded + failed of a snapshot is 1
\* more than that of the snapshot before.
C20_CallbackSnapshots ==
    [][/\ Cardinality({w \in Workers : wpc'[w] = "callback"}) <= 1
       /\ (\E w \in Workers : wpc[w] = "callback") => stats' = stats
       /\ callback_calls' # callback_calls =>
              /\ callback_calls' = callback_calls + 1
              /\ last_snapshot' = Snapshot(stats')
              /\ last_snapshot'.downloaded_pages + last_snapshot'.failed_pages
                     <= last_snapshot'.total_pages
              /\ last_snapshot'.downloaded_pages + last_snapshot'.failed_pages
                     = LastSnapshotSum + 1
       /\ \A w \in Workers :
              /\ (wpc[w] = "record" /\ wpc'[w] # "record") =>
                     (wpc'[w] = "callback" /\ callback_calls' = callback_calls + 1)
              /\ (wpc[w] # "record" /\ wpc'[w] # wpc[w]) =>
                     callback_calls' = callback_calls
              /\ (wpc[w] = "sleep" /\ wpc'[w] # wpc[w]) => wrecorded[w] = 1]_vars

\* The callback is running for a failed task, after earlier calls, while
\* another worker waits for the lock to mark the task it has taken.
C20_Witness ==
    /\ callback_calls >= 2
    /\ \E w \in Workers :
          /\ wpc[w] = "callback"
          /\ wresult[w] # "ok"
          /\ lock_holder = w
    /\ \E w \in Workers : wpc[w] = "mark"

\* C21: a seed that cannot be reached is reported by start() before any
\* worker is started, and is not processed as a task: no worker ever holds
\* the seed as a task whose fetch raised an exception.
C21_SeedErrorIsNotATask ==
    \A w \in Workers :
        ~(wtask[w].url = base_url /\ wtask[w].depth = 0 /\ wresult[w] = "exception")

\* The worker threads that are alive.
LiveWorkers == {w \in Workers : is_alive(w)}

\* C28: at every moment at most num_threads worker threads are alive, over
\* start(), stop() and a further start() on the same object.
C28_LiveWorkersWithinCount == Cardinality(LiveWorkers) <= num_threads

\* C29: once running is False (and start() is not called again), a worker
\* takes at most one more task from the queue: having taken one it does not
\* come to queue.get again, and it ends at the next test of its loop.
C29_AtMostOneTaskAfterStop ==
    [][\A w \in Workers :
          /\ wtaken'[w] <= 1
          /\ (wtaken[w] = 1 /\ wpc'[w] # wpc[w]) => wpc'[w] # "get"
          /\ (wtaken[w] = 1 /\ wpc[w] = "loop" /\ wpc'[w] # wpc[w]) =>
                 wpc'[w] = "dead"]_vars

\* A worker that had passed the test of its loop when stop() was called has
\* taken one task after it and processed it, and is back at the test of its
\* loop with tasks left on the queue.
C29_Witness ==
    /\ queue # <<>>
    /\ ~running
    /\ \E w \in Workers : wtaken[w] = 1 /\ wpc[w] = "loop" /\ fetch_count[UrlQ] = 1

\* C30: no two workers write the same local file at the same time.
C30_NoOverlappingWrites ==
    \A w1, w2 \in Workers :
        (w1 # w2 /\ wwriting[w1] # <<>>) => wwriting[w1] # wwriting[w2]

\* C26: normalize strips the fragment of the href, returns an absolute
\* http/https href as it is, resolves every other href against the parent
\* URL, returns none for an empty one, and what it returns never contains
\* a '#'.
C26_NormalizeStripsFragment ==
    call.fn = "_normalize_url" =>
        LET url == call.args[1]
            parent_url == call.args[2]
            stripped == BeforeHash(url)
        IN  /\ url = <<>> => call.ret = <<>>
            /\ IsHttp(stripped) => call.ret = stripped
            /\ (url # <<>> /\ ~IsHttp(stripped)) => call.ret = urljoin(parent_url, stripped)
            /\ \A i \in 1..Len(call.ret) : call.ret[i] # "#"

\* C27: the answer of isSchedulable is the same under any extraFileTypes,
\* and it is yes exactly for the http/https URLs whose host passes the host
\* rule and whose path does not end with a hard-blocked extension.
C27_ValidityIgnoresFileTypes ==
    call.fn = "_is_valid_url" =>
        LET url == call.args[1]
        IN  /\ \A ft \in FileTypeChoices : call.ret = IsValidUrl(url, follow_external, ft)
            /\ call.ret <=> /\ IsHttp(url)
                            /\ follow_external \/ urlparse(url).netloc = base_domain
                            /\ ~PathEndsBlocked(url)

\* C24: for every URL, an empty path included, mapPath returns the output
\* directory joined with host + path, every ':' replaced by '_', with
\* index.html appended when the path ends with '/', and /index.html when
\* the last segment of the path holds no '.'; the query does not enter.
C24_MapPathShape ==
    (call.fn = "_get_local_path" /\ ~call.raised) =>
        LET parsed_url == urlparse(call.args[1])
            joined == ReplaceColons(parsed_url.netloc \o parsed_url.path)
            segment == basename(parsed_url.path)
            ended == IF EndsWith(parsed_url.path, <<"/">>) THEN joined \o IndexHtml
                     ELSE IF \A i \in 1..Len(segment) : segment[i] # "."
                          THEN joined \o <<"/">> \o IndexHtml
                     ELSE joined
        IN  call.ret = output_dir \o <<"/">> \o ended

\* C25: once mapPath has returned a path for a URL, and whatever mapPath
\* calls and file writes for other URLs came since, a further call on that
\* URL returns the same path and does not raise, and all it leaves behind
\* is that the directories above the path exist.
C25_MapPathIdempotent ==
    [][\A url \in PathUrls :
          (call'.fn = "_get_local_path" /\ call'.args = <<url>> /\ mapped[url] # <<>>) =>
              /\ ~call'.raised
              /\ call'.ret = mapped[url]
              /\ mapped' = mapped
              /\ fs_files' = fs_files
              /\ fs_dirs' = fs_dirs \cup DirectoriesTable[url]
              /\ DirectoriesTable[url] \cap fs_files' = {}]_vars

C25_Witness ==
    /\ call.fn = "_get_local_path"
    /\ call.again
    /\ call.args = <<UrlUnderFile>>
    /\ ~call.raised
    /\ mapped[UrlFile] # <<>>
    /\ fs_files # {}

\* C22: in the page that is saved, the attribute of an image, a stylesheet
\* link or a script is the local relative path when the flag of its kind is
\* on and its download succeeded, and in every other case the attribute is
\* as it was fetched: a resource whose flag is off or whose download
\* failed, and every anchor, one downloaded as an extra file type included.
C22_RewrittenIffDownloaded ==
    call.fn = "_process_html" =>
        LET page == call.args[1]
            flags == call.args[3]
            ok == call.args[4]
            saved == call.ret.saved
        IN  /\ Len(saved) = Len(page)
            /\ \A i \in 1..Len(page) :
                   /\ saved[i].tag = page[i].tag
                   /\ saved[i].ref =
                          IF /\ page[i].tag \in {"img", "link", "script"}
                             /\ Flag(flags, page[i].tag)
                             /\ RefTarget[page[i].ref] # <<>>
                             /\ i \in ok
                          THEN RefRelative[page[i].ref]
                          ELSE page[i].ref

C22_Witness ==
    /\ call.fn = "_process_html"
    /\ call.args[1] = << [tag |-> "img", ref |-> RefPng], [tag |-> "a", ref |-> UrlUpperExe] >>
    /\ call.args[4] = {1, 2}
    /\ Len(call.ret.attempts) = 2
    /\ call.ret.saved[1].ref = <<".", ".", "/", "l", ".", "p", "n", "g">>
    /\ call.ret.saved[2].ref = UrlUpperExe

\* C23: for every anchor of the processed page whose normalized target
\* ends, letter case apart, with an extension of extraFileTypes, the
\* download of the target to its mapped path is attempted, whether the
\* target is schedulable or not, visited or not, and whatever the depth.
C23_ExtraFilesAttempted ==
    call.fn = "_process_html" =>
        LET page == call.args[1]
        IN  \A i \in 1..Len(page) :
                LET target == RefTarget[page[i].ref]
                IN  (/\ page[i].tag = "a"
                     /\ target # <<>>
                     /\ \E ext \in file_types : EndsWith(Lower(target), Lower(ext)))
                    => \E k \in 1..Len(call.ret.attempts) :
                           call.ret.attempts[k] =
                               [url |-> target, local_path |-> RefPath[page[i].ref]]

C23_Witness ==
    /\ call.fn = "_process_html"
    /\ call.args[1] = << [tag |-> "a", ref |-> UrlUpperExe], [tag |-> "a", ref |-> RefExe] >>
    /\ call.args[2] = MaxDepthBound
    /\ UrlUpperExe \in visited_urls
    /\ ~_is_valid_url(UrlExe)
    /\ Len(call.ret.attempts) = 2
====
